---- MODULE Spec2Model ----
(***************************************************************************)
(* Model of the clarification resolution loop of the feature research      *)
(* agent (src/server.py, src/working_backend.py, src/initial.py: the three *)
(* copies of handle_clarifications are line-for-line the same) and of the  *)
(* driver that calls it (research_feature).                                *)
(*                                                                         *)
(* The Plan Executor (the Portia SDK object `portia_instance`) is not part *)
(* of the repository.  It is modelled as an environment that answers each  *)
(* call with one of the outcomes its contract allows; handle_clarifications*)
(* only reads plan_run.state and the outstanding list and issues calls.    *)
(*                                                                         *)
(* Console input is modelled as a sequence of one-character strings so     *)
(* that int(), lower() and strip() are computed and not assumed.           *)
(*                                                                         *)
(* A second state machine (WfSpec) models the workflow runners that call   *)
(* the drivers one after the other, run_research_workflow of server.py and *)
(* main() of working_backend.py, with the session map and the two session  *)
(* endpoints of server.py.  The handlers and run_research_workflow are     *)
(* coroutines of one event loop and the runner never awaits, so a started  *)
(* runner keeps the thread of control until it returns.                    *)
(***************************************************************************)
EXTENDS Integers, Sequences, FiniteSets, TLC

VARIABLES
    pc,             \* position of the driver / handle_clarifications
    plan_run,       \* the PlanRun the local variable plan_run refers to
    clarifications, \* the snapshot taken at the start of the pass
    i,              \* 1-based position of the for loop in the snapshot
    calls,          \* resolutions handed to the executor in this pass
    passResumes,    \* resume calls issued in this pass
    applied,        \* per clarification id: resolutions applied so far
    pass,           \* passes of the while loop started so far
    resumes,        \* resume calls issued so far
    raised,         \* clarifications raised so far (next id - 1)
    lastAnswer,     \* the line read last at a multiple-choice prompt
    rejected,       \* [id, n]: answers the multiple-choice prompt of id refused
    result,         \* what the driver handed to its caller
    mode,           \* "driver", "server" (server.py), "cli" (main()),
                    \* "api" (comment endpoints) or "check" (--check-comments)
    research_sessions, \* the global session map of server.py
    now,            \* wall clock at the latest POST /research
    tasks,          \* workflow runs: background tasks, or the run of main()
    loop,           \* the run that occupies the thread of control, 0: none
    response,       \* the HTTP response sent last
    returned,       \* session ids handed out by POST /research
    writers,        \* per session id: the background tasks that wrote it
    owner,          \* per session id: the request whose entry it holds
    monitor,        \* the latest call of monitor_linear_comments
    reply           \* the HTTP response of the comment endpoint called last

loopvars == <<pc, plan_run, clarifications, i, calls, passResumes, applied,
              pass, resumes, raised, lastAnswer, rejected, result>>

wfvars == <<mode, research_sessions, now, tasks, loop, response, returned,
            writers, owner>>

cmvars == <<monitor, reply>>

vars == <<loopvars, wfvars, cmvars>>

----------------------------------------------------------------------------
(* Bounds *)

MaxClar == 2
MaxPasses == 2
MaxRejected == 2
MaxRequests == 2
MaxClock == 2

MaxIds == MaxClar * MaxPasses

----------------------------------------------------------------------------
(* PlanRunState, as used by the code and the executor *)

NEED_CLARIFICATION == "NEED_CLARIFICATION"
READY_TO_RESUME == "READY_TO_RESUME"
COMPLETE == "COMPLETE"
FAILED == "FAILED"

PlanRunState == {NEED_CLARIFICATION, READY_TO_RESUME, COMPLETE, FAILED}

----------------------------------------------------------------------------
(* Console input: Python str as a sequence of characters *)

Digits == <<"0", "1", "2", "3", "4", "5", "6", "7", "8", "9">>

IsDigit(c) == \E k \in 1..Len(Digits) : Digits[k] = c

DigitVal(c) == (CHOOSE k \in 1..Len(Digits) : Digits[k] = c) - 1

IsSpace(c) == c = " "

RECURSIVE LStrip(_)
LStrip(s) == IF s # <<>> /\ IsSpace(Head(s)) THEN LStrip(Tail(s)) ELSE s

RECURSIVE RStrip(_)
RStrip(s) ==
    IF s # <<>> /\ IsSpace(s[Len(s)]) THEN RStrip(SubSeq(s, 1, Len(s) - 1))
    ELSE s

\* str.strip()
Strip(s) == RStrip(LStrip(s))

LowerChar(c) ==
    CASE c = "Y" -> "y"
      [] c = "E" -> "e"
      [] c = "S" -> "s"
      [] c = "N" -> "n"
      [] OTHER -> c

\* str.lower()
Lower(s) == [k \in 1..Len(s) |-> LowerChar(s[k])]

RECURSIVE DigitsVal(_)
DigitsVal(s) ==
    IF s = <<>> THEN 0
    ELSE 10 * DigitsVal(SubSeq(s, 1, Len(s) - 1)) + DigitVal(s[Len(s)])

AllDigits(s) == s # <<>> /\ \A k \in 1..Len(s) : IsDigit(s[k])

\* int(str): surrounding whitespace and one sign are accepted, anything
\* else raises ValueError (ok = FALSE)
ParseInt(s) ==
    LET t == Strip(s)
        signed == t # <<>> /\ Head(t) \in {"-", "+"}
        body == IF signed THEN Tail(t) ELSE t
    IN  IF AllDigits(body)
        THEN [ok |-> TRUE,
              n |-> IF signed /\ Head(t) = "-" THEN 0 - DigitsVal(body)
                    ELSE DigitsVal(body)]
        ELSE [ok |-> FALSE, n |-> 0]

\* The lines a user may type
Answers ==
    { <<"5">>, <<"x">>, <<"2">>, <<" ", "1">>, <<"0">>,
      <<"y">>, <<"Y", "e", "s", " ">>, <<"n">> }

\* Lines typed at a free-text prompt
TextAnswers == { <<"x">>, <<"n">> }

NoAnswer == <<"?">>

NoneRejected == [id |-> 0, n |-> 0]

----------------------------------------------------------------------------
(* Values handed to resolve_clarification *)

StrVal(s) == [tag |-> "str", b |-> FALSE, s |-> s]
BoolVal(b) == [tag |-> "bool", b |-> b, s |-> <<>>]
NoVal == [tag |-> "none", b |-> FALSE, s |-> <<>>]

----------------------------------------------------------------------------
(* Clarifications *)

OptionsABC == << <<"A">>, <<"B">>, <<"C">> >>

Template(category, options) == [category |-> category, options |-> options]

\* the kinds of clarification the executor raises: the five classes the
\* loop tests for, a MultipleChoice without options and one of another class
Kinds ==
    << Template("Action", <<>>),
       Template("Input", <<>>),
       Template("MultipleChoice", OptionsABC),
       Template("MultipleChoice", OptionsABC),
       Template("ValueConfirmation", <<>>),
       Template("Custom", <<>>),
       Template("Unknown", <<>>),
       Template("MultipleChoice", <<>>) >>

\* n consecutive kinds, starting at `start` and wrapping round
Window(start, n) ==
    [k \in 1..n |-> Kinds[((start + k - 2) % Len(Kinds)) + 1]]

Reverse(seq) == [k \in 1..Len(seq) |-> seq[Len(seq) + 1 - k]]

\* the outstanding sets the executor may raise at once: up to MaxClar
\* clarifications, every kind at every position
TemplateSeqs ==
    UNION { {Window(start, n), Reverse(Window(start, n))} :
               start \in 1..Len(Kinds), n \in 1..MaxClar }

\* a fresh outstanding set: every clarification gets its raised-at ordinal
Raise(ts, base) ==
    [k \in 1..Len(ts) |->
        [id |-> base + k, category |-> ts[k].category,
         options |-> ts[k].options]]

RECURSIVE Without(_, _)
Without(cs, id) ==
    IF cs = <<>> THEN <<>>
    ELSE IF Head(cs).id = id THEN Without(Tail(cs), id)
    ELSE <<Head(cs)>> \o Without(Tail(cs), id)

----------------------------------------------------------------------------
(* The Plan Executor, as far as handle_clarifications depends on it.       *)
(* A PlanRun is [state, outstanding]; the outstanding list is what         *)
(* plan_run.get_outstanding_clarifications() reports.                      *)

Terminal(s) == [state |-> s, outstanding |-> <<>>]

\* run_plan(plan): blocks until the run is not RUNNING; it may pause with a
\* fresh, non-empty outstanding set
RunPlanOutcomes(base, mayPause) ==
    {Terminal(COMPLETE), Terminal(FAILED)} \cup
    (IF mayPause
     THEN {[state |-> NEED_CLARIFICATION, outstanding |-> Raise(ts, base)] :
              ts \in TemplateSeqs}
     ELSE {})

\* resume(plan_run): continues the run; same outcomes as run_plan
ResumeOutcomes(pr, base, mayPause) == RunPlanOutcomes(base, mayPause)

\* variant: a run given up keeps its outstanding clarifications
ResolveOutcomes_KeepOnFail(pr, c) ==
    IF pr.state # NEED_CLARIFICATION THEN {pr}
    ELSE LET rest == Without(pr.outstanding, c.id)
         IN  {[state |-> NEED_CLARIFICATION, outstanding |-> rest],
              [state |-> FAILED, outstanding |-> rest]} \cup
             (IF rest = <<>> THEN {Terminal(READY_TO_RESUME)} ELSE {})

\* resolve_clarification(c, value, plan_run): c leaves the outstanding set.
\* The run stays paused, or - once nothing is outstanding - is marked
\* READY_TO_RESUME, or the executor gives the run up.  A run that is no
\* longer paused is returned as it is.
ResolveOutcomes(pr, c) ==
    IF pr.state # NEED_CLARIFICATION THEN {pr}
    ELSE LET rest == Without(pr.outstanding, c.id)
         IN  {[state |-> NEED_CLARIFICATION, outstanding |-> rest],
              Terminal(FAILED)} \cup
             (IF rest = <<>> THEN {Terminal(READY_TO_RESUME)} ELSE {})

\* wait_for_ready(plan_run): blocks until the external action behind the
\* clarification being handled is done
WaitOutcomes(pr, c) == ResolveOutcomes(pr, c)

\* variant: the list fetched before the loop is used in every pass
get_outstanding_clarifications_Stale(pr) ==
    IF pass = 0 THEN pr.outstanding ELSE clarifications

\* plan_run.get_outstanding_clarifications()
get_outstanding_clarifications(pr) == pr.outstanding

----------------------------------------------------------------------------
(* Decisions and calls of handle_clarifications *)

ResolveCall(c, v) == [op |-> "resolve_clarification", id |-> c.id, val |-> v]
WaitCall(c) == [op |-> "wait_for_ready", id |-> c.id, val |-> NoVal]

\* variant: `if` in place of `while`, a single pass
WhileCond_Once(pr) == pr.state = NEED_CLARIFICATION /\ pass = 0

\* while plan_run.state == PlanRunState.NEED_CLARIFICATION
WhileCond(pr) == pr.state = NEED_CLARIFICATION

\* variant: the loop is left after its first item
ForDone_First(idx, snap) == idx > 1

\* the for loop over the snapshot is exhausted
ForDone(idx, snap) == idx > Len(snap)

\* variant: the action is resolved with a value, as the handler class does
ActionCall_Completed(c) ==
    ResolveCall(c, StrVal(<<"c", "o", "m", "p", "l", "e", "t", "e", "d">>))

\* ActionClarification: input("Press Enter when ready..."), wait_for_ready
ActionCall(c) == WaitCall(c)

\* InputClarification, CustomClarification, the else branch and a
\* MultipleChoiceClarification without options: the text as typed
TextCall_NoValue(c, user_input) == ResolveCall(c, NoVal)

TextCall(c, user_input) == ResolveCall(c, StrVal(user_input))

\* variant: the comparison written the wrong way round
ChoiceInRange_Swapped(choice, n) == n <= choice /\ choice <= 1

\* 1 <= choice <= len(clarification.options)
ChoiceInRange(choice, n) == 1 <= choice /\ choice <= n

\* variant: options[choice], off by one (wrapping at the end)
SelectedOption_OffByOne(options, choice) == options[(choice % Len(options)) + 1]

\* clarification.options[choice - 1]  (0-based there, 1-based here)
SelectedOption(options, choice) == options[choice]

\* response = input(...).lower().strip();  response in ['y', 'yes']
Confirmed(line) == Strip(Lower(line)) \in { <<"y">>, <<"y", "e", "s">> }

\* ValueConfirmationClarification: resolve with True, else with False
ConfirmationCall(c, line) == ResolveCall(c, BoolVal(Confirmed(line)))

\* variant: the break is missing, the prompt is shown again
MCAdvance_NoBreak(idx) == idx

\* break out of `while True` after the resolution, on to the next item
MCAdvance(idx) == idx + 1

\* if plan_run.state == PlanRunState.NEED_CLARIFICATION: resume
ResumeCond(pr) == pr.state = NEED_CLARIFICATION

----------------------------------------------------------------------------
(* Sessions and workflow runs: the data *)

\* instants of the wall clock per second of the session id's timestamp
TicksPerSecond == 2

\* datetime.now().strftime('%Y%m%d_%H%M%S'): the instant cut to its second
Stamp(t) == t \div TicksPerSecond

\* feature_request.name.replace(' ', '_')
ReplaceSpaces(name) ==
    [k \in DOMAIN name |-> IF name[k] = " " THEN "_" ELSE name[k]]

\* names a client may send
FeatureNames == { <<"a", " ", "b">>, <<"a", "_", "b">> }

\* f"research_{timestamp}_{name}"
SessionId(t, name) == [stamp |-> Stamp(t), name |-> ReplaceSpaces(name)]

AllSessionIds == { SessionId(t, n) : t \in 0..MaxClock, n \in FeatureNames }

NoSid == [stamp |-> 0, name |-> <<>>]

NoResult == [set |-> FALSE, notion_page_id |-> "none",
             linear_issue_id |-> "none"]

\* the result dict of a completed session
Result(notion_page_id, linear_issue_id) ==
    [set |-> TRUE, notion_page_id |-> notion_page_id,
     linear_issue_id |-> linear_issue_id]

\* session_id not in research_sessions
Absent == [status |-> "absent", progress |-> 0, result |-> NoResult,
           error |-> "none"]

\* the entry start_research stores
InitialSession == [status |-> "initializing", progress |-> 0,
                   result |-> NoResult, error |-> "none"]

TaskTypes == <<"backend", "frontend", "testing", "documentation">>

TaskPlans == { TaskTypes[k] : k \in DOMAIN TaskTypes }

\* the plans a workflow runner submits itself, next to the task plans
Plans == {"research", "prd", "issue", "comments", "new_comment"}

\* no task creation of create_linear_tasks has run
NoTask == [k |-> 0, state |-> "none", disp |-> "none", appended |-> FALSE]

\* the local variables of one workflow run, with the record of what the
\* executor answered (run) and of what the driver made of it (disp), per
\* plan and, inside create_linear_tasks, for the latest task creation
Fresh(sid) ==
    [sid |-> sid, pc |-> "queued", analysis |-> "none",
     notion_page_id |-> "none", linear_issue_id |-> "none",
     k |-> 1,
     run |-> [p \in Plans |-> "none"],
     disp |-> [p \in Plans |-> "none"],
     last |-> NoTask,
     raisedIn |-> "none",
     artifacts |-> 0]

\* a run that has returned
Retired == [Fresh(NoSid) EXCEPT !.pc = "gone"]

NoResponse == [op |-> "none", code |-> 0, sid |-> NoSid, session |-> Absent]

\* Python values as far as the comment code tells them apart: t is the
\* type, a str carries its characters s and the value json.loads makes of
\* it (Invalid: the text is not JSON)
None == [t |-> "none"]

Invalid == [t |-> "invalid"]

NoTriage == [k |-> 0, verdict |-> "none", feedback |-> <<>>, plans |-> <<>>]

\* monitor_linear_comments is not running
Off ==
    [pc |-> "off", output |-> [state |-> "none", value |-> None],
     exc |-> "none",
     comments_data |-> <<>>, k |-> 0, after |-> "none",
     presented |-> <<>>, followups |-> <<>>, last |-> NoTriage]

\* a reply and, with it, what the request carried and met: whether Config
\* and Portia were set up, the content posted, how the plan run ended
NoReply ==
    [op |-> "none", code |-> 0, success |-> "none",
     message |-> "", data |-> "none", comments |-> <<>>, count |-> 0,
     setup |-> TRUE, content |-> <<>>, plan |-> "none"]

\* no request has been served and no workflow runs
NoWorkflow ==
    /\ monitor = Off
    /\ reply = NoReply
    /\ research_sessions = [s \in AllSessionIds |-> Absent]
    /\ now = 0
    /\ tasks = <<>>
    /\ loop = 0
    /\ response = NoResponse
    /\ returned = {}
    /\ writers = [s \in AllSessionIds |-> {}]
    /\ owner = [s \in AllSessionIds |-> 0]

----------------------------------------------------------------------------
(* State machine *)

LoopInit ==
    /\ pc = "run_plan"
    /\ plan_run = [state |-> "NOT_STARTED", outstanding |-> <<>>]
    /\ clarifications = <<>>
    /\ i = 1
    /\ calls = <<>>
    /\ passResumes = 0
    /\ applied = [k \in 1..MaxIds |-> 0]
    /\ pass = 0
    /\ resumes = 0
    /\ raised = 0
    /\ lastAnswer = NoAnswer
    /\ rejected = NoneRejected
    /\ result = "none"

Init ==
    /\ LoopInit
    /\ mode = "driver"
    /\ NoWorkflow

\* research_run = portia.run_plan(research_plan)
run_plan ==
    /\ pc = "run_plan"
    /\ \E pr \in RunPlanOutcomes(raised, TRUE) :
          /\ plan_run' = pr
          /\ raised' = raised + Len(pr.outstanding)
    /\ pc' = "driver_if"
    /\ UNCHANGED <<clarifications, i, calls, passResumes, applied, pass,
                   resumes, lastAnswer, rejected, result>>
    /\ UNCHANGED <<wfvars, cmvars>>

\* variant: the driver calls handle_clarifications whatever the state
DriverCond_Always(pr) == TRUE

\* if research_run.state == PlanRunState.NEED_CLARIFICATION:
DriverCond(pr) == pr.state = NEED_CLARIFICATION

\* if research_run.state == NEED_CLARIFICATION: handle_clarifications(...)
DriverIf ==
    /\ pc = "driver_if"
    /\ pc' = IF DriverCond(plan_run) THEN "while" ELSE "final"
    /\ UNCHANGED <<plan_run, clarifications, i, calls, passResumes, applied,
                   pass, resumes, raised, lastAnswer, rejected, result>>
    /\ UNCHANGED <<wfvars, cmvars>>

\* the while test holds: a pass starts with
\* clarifications = plan_run.get_outstanding_clarifications()
WhileEnter ==
    /\ pc = "while"
    /\ WhileCond(plan_run)
    /\ clarifications' = get_outstanding_clarifications(plan_run)
    /\ i' = 1
    /\ calls' = <<>>
    /\ passResumes' = 0
    /\ pass' = pass + 1
    /\ lastAnswer' = NoAnswer
    /\ rejected' = NoneRejected
    /\ pc' = "for"
    /\ UNCHANGED <<plan_run, applied, resumes, raised, result>>
    /\ UNCHANGED <<wfvars, cmvars>>

\* the while test fails: return plan_run
WhileExit ==
    /\ pc = "while"
    /\ ~WhileCond(plan_run)
    /\ pc' = "returned"
    /\ UNCHANGED <<plan_run, clarifications, i, calls, passResumes, applied,
                   pass, resumes, raised, lastAnswer, rejected, result>>
    /\ UNCHANGED <<wfvars, cmvars>>

Current == clarifications[i]

InLoop == pc = "for" /\ ~ForDone(i, clarifications)

\* one executor call for the current clarification, then on to `next`
Issue(call, outcomes, next) ==
    /\ \E pr \in outcomes : plan_run' = pr
    /\ calls' = Append(calls, call)
    /\ applied' = [applied EXCEPT ![call.id] = @ + 1]
    /\ i' = next
    /\ UNCHANGED <<pc, clarifications, passResumes, pass, resumes, raised,
                   rejected, result>>
    /\ UNCHANGED <<wfvars, cmvars>>

DispatchAction ==
    /\ InLoop
    /\ Current.category = "Action"
    /\ Issue(ActionCall(Current),
             IF ActionCall(Current).op = "wait_for_ready"
             THEN WaitOutcomes(plan_run, Current)
             ELSE ResolveOutcomes(plan_run, Current),
             i + 1)
    /\ UNCHANGED lastAnswer

DispatchInput ==
    /\ InLoop
    /\ Current.category = "Input"
    /\ \E user_input \in TextAnswers :
          Issue(TextCall(Current, user_input),
                ResolveOutcomes(plan_run, Current), i + 1)
    /\ UNCHANGED lastAnswer

\* options present: a valid 1-based selection resolves with the option
DispatchMultipleChoiceValid ==
    /\ InLoop
    /\ Current.category = "MultipleChoice"
    /\ Current.options # <<>>
    /\ \E line \in Answers :
          LET choice == ParseInt(line)
          IN  /\ choice.ok
              /\ ChoiceInRange(choice.n, Len(Current.options))
              /\ lastAnswer' = line
              /\ Issue(ResolveCall(Current,
                           StrVal(SelectedOption(Current.options, choice.n))),
                       ResolveOutcomes(plan_run, Current), MCAdvance(i))

\* options present: ValueError or out of range, prompt again
DispatchMultipleChoiceInvalid ==
    /\ InLoop
    /\ Current.category = "MultipleChoice"
    /\ Current.options # <<>>
    /\ \E line \in Answers :
          LET choice == ParseInt(line)
          IN  /\ ~(choice.ok /\ ChoiceInRange(choice.n, Len(Current.options)))
              /\ lastAnswer' = line
    /\ rejected' =
          IF rejected.id # Current.id THEN [id |-> Current.id, n |-> 1]
          ELSE IF rejected.n < MaxRejected
               THEN [rejected EXCEPT !.n = @ + 1]
               ELSE rejected
    /\ UNCHANGED <<pc, plan_run, clarifications, i, calls, passResumes,
                   applied, pass, resumes, raised, result>>
    /\ UNCHANGED <<wfvars, cmvars>>

\* no options: input("Your choice: ") is passed on as typed
DispatchMultipleChoiceNoOptions ==
    /\ InLoop
    /\ Current.category = "MultipleChoice"
    /\ Current.options = <<>>
    /\ \E user_input \in TextAnswers :
          Issue(TextCall(Current, user_input),
                ResolveOutcomes(plan_run, Current), i + 1)
    /\ UNCHANGED lastAnswer

DispatchValueConfirmation ==
    /\ InLoop
    /\ Current.category = "ValueConfirmation"
    /\ \E line \in Answers :
          Issue(ConfirmationCall(Current, line),
                ResolveOutcomes(plan_run, Current), i + 1)
    /\ UNCHANGED lastAnswer

DispatchCustom ==
    /\ InLoop
    /\ Current.category = "Custom"
    /\ \E user_input \in TextAnswers :
          Issue(TextCall(Current, user_input),
                ResolveOutcomes(plan_run, Current), i + 1)
    /\ UNCHANGED lastAnswer

\* else: unknown clarification type
DispatchUnknown ==
    /\ InLoop
    /\ Current.category \notin
          {"Action", "Input", "MultipleChoice", "ValueConfirmation", "Custom"}
    /\ \E user_input \in TextAnswers :
          Issue(TextCall(Current, user_input),
                ResolveOutcomes(plan_run, Current), i + 1)
    /\ UNCHANGED lastAnswer

\* the for loop is over
ForExit ==
    /\ pc = "for"
    /\ ForDone(i, clarifications)
    /\ pc' = "check"
    /\ UNCHANGED <<plan_run, clarifications, i, calls, passResumes, applied,
                   pass, resumes, raised, lastAnswer, rejected, result>>
    /\ UNCHANGED <<wfvars, cmvars>>

\* if plan_run.state == NEED_CLARIFICATION:  (before the resume)
ResumeTest ==
    /\ pc = "check"
    /\ pc' = IF ResumeCond(plan_run) THEN "resume" ELSE "while"
    /\ UNCHANGED <<plan_run, clarifications, i, calls, passResumes, applied,
                   pass, resumes, raised, lastAnswer, rejected, result>>
    /\ UNCHANGED <<wfvars, cmvars>>

\* plan_run = portia_instance.resume(plan_run); the resolutions of the pass
\* are behind the executor now
resume ==
    /\ pc = "resume"
    /\ \E pr \in ResumeOutcomes(plan_run, raised, pass < MaxPasses) :
          /\ plan_run' = pr
          /\ raised' = raised + Len(pr.outstanding)
    /\ passResumes' = passResumes + 1
    /\ resumes' = resumes + 1
    /\ calls' = <<>>
    /\ lastAnswer' = NoAnswer
    /\ rejected' = NoneRejected
    /\ pc' = "while"
    /\ UNCHANGED <<clarifications, i, applied, pass, result>>
    /\ UNCHANGED <<wfvars, cmvars>>

\* research_run = handle_clarifications(research_run, portia)
Returned ==
    /\ pc = "returned"
    /\ pc' = "final"
    /\ UNCHANGED <<plan_run, clarifications, i, calls, passResumes, applied,
                   pass, resumes, raised, lastAnswer, rejected, result>>
    /\ UNCHANGED <<wfvars, cmvars>>

\* COMPLETE: return final_output.value; else raise Exception
DriverFinal ==
    /\ pc = "final"
    /\ result' = IF plan_run.state = COMPLETE THEN "value" ELSE "raise"
    /\ pc' = "done"
    /\ UNCHANGED <<plan_run, clarifications, i, calls, passResumes, applied,
                   pass, resumes, raised, lastAnswer, rejected>>
    /\ UNCHANGED <<wfvars, cmvars>>

Next ==
    \/ run_plan
    \/ DriverIf
    \/ WhileEnter
    \/ WhileExit
    \/ DispatchAction
    \/ DispatchInput
    \/ DispatchMultipleChoiceValid
    \/ DispatchMultipleChoiceInvalid
    \/ DispatchMultipleChoiceNoOptions
    \/ DispatchValueConfirmation
    \/ DispatchCustom
    \/ DispatchUnknown
    \/ ForExit
    \/ ResumeTest
    \/ resume
    \/ Returned
    \/ DriverFinal

Spec == Init /\ [][Next]_vars

TypeOK ==
    /\ pc \in {"run_plan", "driver_if", "while", "for", "check", "resume",
               "returned", "final", "done"}
    /\ plan_run.state \in PlanRunState \cup {"NOT_STARTED"}
    /\ i \in 1..(MaxClar + 1)
    /\ pass \in 0..MaxPasses
    /\ passResumes \in 0..1
    /\ raised \in 0..MaxIds
    /\ rejected.n \in 0..MaxRejected
    /\ result \in {"none", "value", "raise"}

----------------------------------------------------------------------------
(* Fairness: every executor call returns and the code runs on; the user    *)
(* may type refused lines for as long as they like, so the re-prompt is    *)
(* not a step the specification forces or forbids.                         *)

Progress ==
    \/ run_plan
    \/ DriverIf
    \/ WhileEnter
    \/ WhileExit
    \/ DispatchAction
    \/ DispatchInput
    \/ DispatchMultipleChoiceValid
    \/ DispatchMultipleChoiceNoOptions
    \/ DispatchValueConfirmation
    \/ DispatchCustom
    \/ DispatchUnknown
    \/ ForExit
    \/ ResumeTest
    \/ resume
    \/ Returned
    \/ DriverFinal

LiveSpec == Spec /\ WF_vars(Progress)

----------------------------------------------------------------------------
(* Helpers of the properties *)

IsResolution(call) == call.op \in {"resolve_clarification", "wait_for_ready"}

\* the clarification of the snapshot has been handed to the executor
Processed(k) ==
    \E m \in DOMAIN calls :
        IsResolution(calls[m]) /\ calls[m].id = clarifications[k].id

SnapshotCategory(id) ==
    IF \E k \in DOMAIN clarifications : clarifications[k].id = id
    THEN clarifications[CHOOSE k \in DOMAIN clarifications :
                            clarifications[k].id = id].category
    ELSE "none"

----------------------------------------------------------------------------
(* C1: when handle_clarifications returns, the PlanRun it returns is not in *)
(* NEED_CLARIFICATION.                                                     *)
C1_ReturnsNotNeedClarification ==
    pc = "returned" => plan_run.state # NEED_CLARIFICATION

C1_Witness ==
    pc = "returned" /\ pass = 2 /\ resumes = 2 /\ plan_run.state = COMPLETE

(* C2: a resume is issued only from the resume statement after the for     *)
(* loop, when every clarification of the pass's snapshot has been handed   *)
(* to the executor; a step of the per-clarification dispatch issues a      *)
(* resolve_clarification or wait_for_ready call and never a resume.        *)
C2_ResumeOnlyAfterWholeSnapshot ==
    [][ /\ (resumes' # resumes =>
              /\ pc = "resume"
              /\ i > Len(clarifications)
              /\ \A k \in DOMAIN clarifications : Processed(k))
        /\ (pc = "for" /\ calls' # calls =>
              /\ resumes' = resumes
              /\ Len(calls') = Len(calls) + 1
              /\ IsResolution(calls'[Len(calls')])) ]_vars

C2_Witness ==
    /\ pc = "while"
    /\ passResumes = 1
    /\ resumes = 2
    /\ Len(clarifications) = 2

(* C3 (as claimed): at the end of every pass - the loop is about to test   *)
(* its condition again or has returned - exactly one resume has been       *)
(* issued in that pass.                                                    *)
C3_OneResumePerPass ==
    (pc \in {"while", "returned"} /\ pass >= 1) => passResumes = 1

(* C4 (as claimed): a ValueConfirmation that the user rejects is never     *)
(* resolved with boolean false, and the loop does not go on to the resume  *)
(* after a rejection.                                                      *)
C4_RejectionIsNotResolvedFalse ==
    \A k \in DOMAIN calls :
        /\ ~(calls[k].op = "resolve_clarification"
             /\ calls[k].val = BoolVal(FALSE))
        /\ (SnapshotCategory(calls[k].id) = "ValueConfirmation"
            /\ calls[k].val # BoolVal(TRUE)
              => pc # "resume")

\* the 1-based selection a typed line stands for, 0 when it is refused
\* (options A, B, C)
ExpectedChoice(line) ==
    CASE line = <<"2">> -> 2
      [] line = <<" ", "1">> -> 1
      [] OTHER -> 0

(* C5: at the prompt of a MultipleChoice clarification with options, a     *)
(* line that is not an integer in 1..n applies nothing and leaves the      *)
(* prompt open; the first line that is one applies exactly one resolution, *)
(* with the value options[k-1].                                            *)
C5_MultipleChoiceResolvesWithOption ==
    [][ (/\ pc = "for"
         /\ i <= Len(clarifications)
         /\ clarifications[i].category = "MultipleChoice"
         /\ clarifications[i].options = OptionsABC)
        =>
        IF ExpectedChoice(lastAnswer') = 0
        THEN /\ calls' = calls
             /\ applied' = applied
             /\ i' = i
        ELSE /\ calls' = Append(calls,
                    ResolveCall(clarifications[i],
                        StrVal(OptionsABC[ExpectedChoice(lastAnswer')])))
             /\ applied' = [applied EXCEPT ![clarifications[i].id] = @ + 1]
             /\ i' = i + 1 ]_vars

\* the example of the specification: 5 and x are refused, 2 resolves with B
C5_Witness ==
    /\ rejected.n >= 2
    /\ lastAnswer = <<"2">>
    /\ calls # <<>>
    /\ calls[Len(calls)] =
          [op |-> "resolve_clarification", id |-> rejected.id,
           val |-> StrVal(<<"B">>)]
    /\ applied[rejected.id] = 1

(* C6: when valid answers keep being available and the executor calls      *)
(* return, every call of handle_clarifications returns.                    *)
C6_LoopTerminates ==
    (pc = "while") ~> (pc = "returned")

C6_Witness ==
    pc = "returned" /\ rejected.n >= 2 /\ pass = 2

(* C7: a resume that returns the PlanRun in NEED_CLARIFICATION leads back  *)
(* to the fetch; the snapshot of every pass is the outstanding set raised  *)
(* last, and all of it has been handed to the executor when the for loop   *)
(* is over.                                                                *)
C7_ReentersFromFetch ==
    /\ [](pc \in {"for", "check", "resume"} =>
            /\ clarifications # <<>>
            /\ clarifications[Len(clarifications)].id = raised
            /\ \A k \in DOMAIN clarifications :
                  clarifications[k].id = raised - Len(clarifications) + k)
    /\ [](pc \in {"check", "resume"} =>
            \A k \in DOMAIN clarifications : Processed(k))
    /\ [][ /\ (pc = "resume" /\ plan_run'.state = NEED_CLARIFICATION
                 => pc' = "while")
           /\ (pc = "while" /\ plan_run.state = NEED_CLARIFICATION
                 => /\ pc' = "for"
                    /\ plan_run' = plan_run
                    /\ clarifications' = plan_run.outstanding
                    /\ i' = 1) ]_vars

C7_Witness ==
    /\ pc = "check"
    /\ pass = 2
    /\ resumes = 1
    /\ Len(clarifications) = 2
    /\ clarifications[1].id = 2

(* C8: no clarification has more than one resolution applied, and one that *)
(* has been resolved is not in the outstanding set any more.               *)
C8_AtMostOneResolution ==
    \A id \in 1..MaxIds :
        /\ applied[id] <= 1
        /\ (applied[id] = 1 =>
              \A k \in DOMAIN plan_run.outstanding :
                  plan_run.outstanding[k].id # id)

C8_Witness ==
    /\ pc = "check"
    /\ pass = 2
    /\ clarifications # <<>>
    /\ \A id \in 1..raised : applied[id] = 1
    /\ \E k \in DOMAIN clarifications :
          clarifications[k].category = "MultipleChoice"
          /\ clarifications[k].options # <<>>

(* C9 (as claimed): the PlanRun is in exactly one state and has            *)
(* outstanding clarifications if and only if it is in NEED_CLARIFICATION.  *)
C9_OutstandingIffNeedClarification ==
    pc # "run_plan" =>
        /\ plan_run.state \in PlanRunState
        /\ (plan_run.outstanding # <<>>
              <=> plan_run.state = NEED_CLARIFICATION)

(* C9 (amended): the PlanRun is in exactly one state; it has outstanding   *)
(* clarifications only in NEED_CLARIFICATION; in NEED_CLARIFICATION the    *)
(* outstanding set is empty only between the last resolution of a pass and *)
(* the resume that follows it.                                             *)
C9_OutstandingOnlyInNeedClarification ==
    pc # "run_plan" =>
        /\ plan_run.state \in PlanRunState
        /\ (plan_run.outstanding # <<>>
              => plan_run.state = NEED_CLARIFICATION)
        /\ (plan_run.state = NEED_CLARIFICATION /\ plan_run.outstanding = <<>>
              => /\ pc \in {"for", "check", "resume"}
                 /\ i > Len(clarifications)
                 /\ passResumes = 0)

C9_Witness ==
    /\ pc = "resume"
    /\ plan_run.state = NEED_CLARIFICATION
    /\ plan_run.outstanding = <<>>
    /\ Len(calls) = 2

(* C10: for an Action clarification the loop issues wait_for_ready and     *)
(* hands no resolution value to the executor.                              *)
C10_ActionIsWaitOnly ==
    \A k \in DOMAIN calls :
        SnapshotCategory(calls[k].id) = "Action" =>
            /\ calls[k].op = "wait_for_ready"
            /\ calls[k].val = NoVal

C10_Witness ==
    /\ pc = "check"
    /\ \E k \in DOMAIN calls :
          /\ calls[k].op = "wait_for_ready"
          /\ SnapshotCategory(calls[k].id) = "Action"

(* C11: a clarification of none of the five known classes is handled as   *)
(* free text: the step taken for it issues exactly one                     *)
(* resolve_clarification carrying a typed text, and the for loop stays in  *)
(* the same pass, on the same snapshot, at the next clarification.         *)
C11_UnknownHandledAsInput ==
    [][ (InLoop /\ Current.category \notin
            {"Action", "Input", "MultipleChoice", "ValueConfirmation",
             "Custom"})
        => /\ \E user_input \in TextAnswers :
                 calls' = Append(calls, ResolveCall(Current,
                                                    StrVal(user_input)))
           /\ applied' = [applied EXCEPT ![Current.id] = @ + 1]
           /\ pc' = "for"
           /\ clarifications' = clarifications
           /\ pass' = pass
           /\ i' = i + 1 ]_vars

\* an unknown clarification was resolved with text and another clarification
\* of the same pass is up next
C11_Witness ==
    /\ pc = "for"
    /\ i = 2
    /\ Len(clarifications) >= 2
    /\ clarifications[1].category = "Unknown"
    /\ Len(calls) = 1
    /\ calls[1].op = "resolve_clarification"
    /\ calls[1].id = clarifications[1].id
    /\ calls[1].val \in {StrVal(t) : t \in TextAnswers}

----------------------------------------------------------------------------
(* The workflow runners: run_research_workflow of server.py and main() of  *)
(* working_backend.py.  A driver call (run_plan, the resolution loop and   *)
(* the test of the final state) is one step here; what the loop can hand   *)
(* back is what the state machine above returns.                           *)

\* the states a driver can find after run_plan and the resolution loop
LoopReturns == PlanRunState \ {NEED_CLARIFICATION}

\* how a plan run ends for its driver: in a state of LoopReturns, with a
\* final value of the declared type or a raw string when COMPLETE, or with
\* an exception raised by the executor call
PlanOutcomes ==
    { [state |-> COMPLETE, value |-> v] : v \in {"structured", "raw"} }
       \cup { [state |-> st, value |-> "none"] :
                 st \in (LoopReturns \ {COMPLETE}) \cup {"RAISED"} }

\* drivers whose body is a try/except of its own
Guarded == {"comments", "new_comment"}

\* drivers that read an attribute of the final value
ReadsValue == {"prd", "issue"} \cup TaskPlans

Disposition_ValueWhenReady(p, o) ==
    IF o.state \in {COMPLETE, READY_TO_RESUME} THEN "value" ELSE "error"

\* what the driver of plan p does with the outcome o: return the value,
\* raise, or print a warning and go on
Disposition(p, o) ==
    IF o.state = "RAISED"
    THEN IF p \in Guarded THEN "logged" ELSE "error"
    ELSE IF o.state = COMPLETE
    THEN IF p \in ReadsValue /\ o.value = "raw" THEN "error" ELSE "value"
    ELSE IF p \in {"research", "prd", "issue"} THEN "error" ELSE "logged"

\* the record of a run after its driver of plan p met outcome o
Ran(rec, p, o) ==
    [rec EXCEPT !.run[p] = o.state, !.disp[p] = Disposition(p, o)]

Caught_TasksOnly(p) == p \in TaskPlans

\* the calls the runner wraps in try/except of their own
Caught(p) == p \in {"prd", "issue"} \cup TaskPlans

TaskLoopNext_StopOnFailure(k, d) ==
    IF d # "value" \/ k = Len(TaskTypes) THEN 0 ELSE k + 1

\* for task_info in task_types: the index after a task creation, 0 when
\* create_linear_tasks is left
TaskLoopNext(k, d) ==
    IF d = "error" \/ k = Len(TaskTypes) THEN 0 ELSE k + 1

Me == tasks[loop]

Running(at) == loop # 0 /\ Me.pc = at

\* research_sessions[session_id]["status"] = st; ["progress"] = pg
StatusWrite(st, pg) ==
    IF mode = "server"
    THEN /\ research_sessions' =
               [research_sessions EXCEPT ![Me.sid].status = st,
                                         ![Me.sid].progress = pg]
         /\ writers' = [writers EXCEPT ![Me.sid] = @ \cup {loop}]
    ELSE UNCHANGED <<research_sessions, writers>>

NoStatusWrite == UNCHANGED <<research_sessions, writers>>

FailedStatus_Keep(session) == session.status

\* research_sessions[session_id]["status"] = "failed"
FailedStatus(session) == "failed"

\* except Exception as e: of the runner
Except(rec, where, text) ==
    /\ tasks' = [tasks EXCEPT ![loop] =
                    [rec EXCEPT !.pc = "terminal", !.raisedIn = where]]
    /\ IF mode = "server"
       THEN /\ research_sessions' =
                  [research_sessions EXCEPT
                      ![Me.sid].status = FailedStatus(research_sessions[Me.sid]),
                      ![Me.sid].error = text]
            /\ writers' = [writers EXCEPT ![Me.sid] = @ \cup {loop}]
       ELSE NoStatusWrite

\* the runner goes on at `at`
Goto(rec, at) == tasks' = [tasks EXCEPT ![loop] = [rec EXCEPT !.pc = at]]

\* after the driver of plan p: an error is swallowed by the try around the
\* call or reaches the except of the runner
AfterSub(rec, p, at, write) ==
    IF rec.disp[p] = "error" /\ ~Caught(p)
    THEN Except(rec, p, "error")
    ELSE Goto(rec, at) /\ write

Idle ==
    UNCHANGED <<loopvars, cmvars, mode, now, loop, response, returned, owner>>

\* POST /research
start_research ==
    /\ mode = "server"
    /\ loop = 0
    /\ Len(tasks) < MaxRequests
    /\ \E t \in now..MaxClock, name \in FeatureNames :
          LET session_id == SessionId(t, name)
          IN  /\ now' = t
              /\ research_sessions' =
                    [research_sessions EXCEPT ![session_id] = InitialSession]
              /\ owner' = [owner EXCEPT ![session_id] = Len(tasks) + 1]
              /\ tasks' = Append(tasks, Fresh(session_id))
              /\ response' = [op |-> "POST", code |-> 200,
                              sid |-> session_id,
                              session |-> [InitialSession EXCEPT
                                              !.status = "started"]]
              /\ returned' = returned \cup {session_id}
    /\ UNCHANGED cmvars
    /\ UNCHANGED <<loopvars, mode, loop, writers>>

\* GET /research/{session_id}
get_research_status ==
    /\ mode = "server"
    /\ loop = 0
    /\ \E session_id \in AllSessionIds :
          response' =
              IF research_sessions[session_id] = Absent
              THEN [op |-> "GET", code |-> 404, sid |-> session_id,
                    session |-> Absent]
              ELSE [op |-> "GET", code |-> 200, sid |-> session_id,
                    session |-> research_sessions[session_id]]
    /\ UNCHANGED cmvars
    /\ UNCHANGED <<loopvars, mode, research_sessions, now, tasks, loop,
                   returned, writers, owner>>

\* the event loop calls the coroutine run_research_workflow; it has no
\* await, so it keeps the thread until it returns
TaskStart ==
    /\ mode = "server"
    /\ loop = 0
    /\ \E r \in DOMAIN tasks :
          /\ tasks[r].pc = "queued"
          /\ loop' = r
          /\ tasks' = [tasks EXCEPT ![r].pc = "setup"]
          /\ research_sessions' =
                [research_sessions EXCEPT ![tasks[r].sid].status = "setting_up",
                                          ![tasks[r].sid].progress = 10]
          /\ writers' = [writers EXCEPT ![tasks[r].sid] = @ \cup {r}]
    /\ response' = NoResponse
    /\ UNCHANGED cmvars
    /\ UNCHANGED <<loopvars, mode, now, returned, owner>>

\* Config.from_default(), Portia(...): the setup of the executor
Setup ==
    /\ Running("setup")
    /\ \E ok \in BOOLEAN :
          IF ok
          THEN Goto(Me, "research") /\ StatusWrite("researching", 30)
          ELSE Except(Me, "setup", "setup error")
    /\ Idle

\* analysis = research_feature(portia, feature_request)
Research ==
    /\ Running("research")
    /\ \E o \in PlanOutcomes :
          LET rec == Ran(Me, "research", o)
          IN  IF rec.disp["research"] = "value"
              THEN /\ Goto([rec EXCEPT !.analysis = o.value],
                           IF mode = "server" THEN "prd" ELSE "save")
                   /\ StatusWrite("creating_prd", 60)
              ELSE Except(rec, "research", "Feature research failed")
    /\ Idle

\* analysis_file = save_analysis_to_file(analysis)
SaveAnalysis ==
    /\ Running("save")
    /\ IF Me.analysis = "raw"
       THEN Except(Me, "save", "attribute error")
       ELSE Goto([Me EXCEPT !.artifacts = @ + 1], "prd") /\ NoStatusWrite
    /\ Idle

NotionPageId_Always(d) == "page"

\* notion_page_id = None, assigned only if create_prd_in_notion returns
NotionPageId(d) == IF d = "value" THEN "page" ELSE "none"

\* if os.getenv('NOTION_API_KEY'): try: create_prd_in_notion(...)
CreatePrd ==
    /\ Running("prd")
    /\ \E key \in BOOLEAN :
          IF ~key
          THEN Goto(Me, "issue") /\ StatusWrite("creating_linear_issue", 80)
          ELSE IF Me.analysis = "raw"
          THEN AfterSub([Me EXCEPT !.disp["prd"] = "error"], "prd", "issue",
                        StatusWrite("creating_linear_issue", 80))
          ELSE \E o \in PlanOutcomes :
                  LET rec == Ran(Me, "prd", o)
                  IN  AfterSub([rec EXCEPT !.notion_page_id =
                                   NotionPageId(rec.disp["prd"])],
                               "prd", "issue",
                               StatusWrite("creating_linear_issue", 80))
    /\ Idle

AfterIssue_Always(rec) == "tasks"

\* where the runner goes when the issue step is over
AfterIssue(rec) ==
    IF rec.linear_issue_id # "none" THEN "tasks"
    ELSE IF mode = "server" THEN "completed" ELSE "summary"

\* where the runner goes when create_linear_tasks is over
AfterTasks == IF mode = "server" THEN "completed" ELSE "comments"

\* create_linear_tasks has returned: its locals are gone
Left(rec) == [rec EXCEPT !.last = NoTask, !.k = 1]

\* try: linear_issue_id = create_linear_issue(portia, analysis)
CreateIssue ==
    /\ Running("issue")
    /\ IF Me.analysis = "raw"
       THEN LET rec == [Me EXCEPT !.disp["issue"] = "error"]
            IN  AfterSub(rec, "issue", AfterIssue(rec), NoStatusWrite)
       ELSE \E o \in PlanOutcomes :
               LET ran == Ran(Me, "issue", o)
                   rec == [ran EXCEPT !.linear_issue_id =
                              IF ran.disp["issue"] = "value" THEN "issue"
                              ELSE "none"]
               IN  AfterSub(rec, "issue", AfterIssue(rec), NoStatusWrite)
    /\ Idle

\* one round of the for loop of create_linear_tasks; the exception that
\* leaves the loop is caught by the try around the call
CreateTask ==
    /\ Running("tasks")
    /\ \E o \in PlanOutcomes :
          LET p == TaskTypes[Me.k]
              d == Disposition(p, o)
              next == TaskLoopNext(Me.k, d)
              rec == [Me EXCEPT !.last = [k |-> Me.k, state |-> o.state,
                                          disp |-> d,
                                          appended |-> o.state = COMPLETE],
                                !.k = IF next = 0 THEN Me.k ELSE next]
          IN  IF d = "error" /\ ~Caught(p)
              THEN Except(rec, p, "error")
              ELSE /\ Goto(rec, IF next # 0 THEN "tasks" ELSE AfterTasks)
                   /\ NoStatusWrite
    /\ Idle

\* monitor_linear_comments(portia, linear_issue_id): the listing plan and
\* the prompt that may lead to create_new_comment
MonitorComments ==
    /\ Running("comments")
    /\ \E o \in PlanOutcomes, create \in BOOLEAN :
          Goto(Ran(Left(Me), "comments", o),
               IF o.state # "RAISED" /\ create THEN "new_comment"
               ELSE "summary")
    /\ NoStatusWrite
    /\ Idle

\* create_new_comment(portia, issue_id) of main()'s variant
NewComment ==
    /\ Running("new_comment")
    /\ \/ Goto(Me, "summary")
       \/ \E o \in PlanOutcomes : Goto(Ran(Me, "new_comment", o), "summary")
    /\ NoStatusWrite
    /\ Idle

\* research_sessions[session_id]["status"] = "completed"; progress 100
MarkCompleted ==
    /\ Running("completed")
    /\ Goto(Left(Me), "result")
    /\ StatusWrite("completed", 100)
    /\ Idle

\* research_sessions[session_id]["result"] = {...}
AssembleResult ==
    /\ Running("result")
    /\ IF Me.analysis = "raw"
       THEN Except(Me, "result", "attribute error")
       ELSE /\ Goto(Me, "terminal")
            /\ research_sessions' =
                  [research_sessions EXCEPT ![Me.sid].result =
                      Result(Me.notion_page_id, Me.linear_issue_id)]
            /\ writers' = [writers EXCEPT ![Me.sid] = @ \cup {loop}]
    /\ Idle

\* the summary main() prints
Summary ==
    /\ Running("summary")
    /\ IF Me.analysis = "raw"
       THEN Except(Me, "summary", "attribute error")
       ELSE Goto(Me, "terminal") /\ NoStatusWrite
    /\ Idle

\* the runner returns
TaskReturn ==
    /\ Running("terminal")
    /\ loop' = 0
    /\ tasks' = [tasks EXCEPT ![loop] = Retired]
    /\ UNCHANGED cmvars
    /\ UNCHANGED <<loopvars, mode, research_sessions, now, response, returned,
                   writers, owner>>

WfInit ==
    /\ LoopInit
    /\ monitor = Off
    /\ reply = NoReply
    /\ mode \in {"server", "cli"}
    /\ research_sessions = [s \in AllSessionIds |-> Absent]
    /\ now = 0
    /\ tasks = IF mode = "cli" THEN << [Fresh(NoSid) EXCEPT !.pc = "setup"] >>
               ELSE <<>>
    /\ loop = IF mode = "cli" THEN 1 ELSE 0
    /\ response = NoResponse
    /\ returned = {}
    /\ writers = [s \in AllSessionIds |-> {}]
    /\ owner = [s \in AllSessionIds |-> 0]

RunnerStep ==
    \/ TaskStart
    \/ Setup
    \/ Research
    \/ SaveAnalysis
    \/ CreatePrd
    \/ CreateIssue
    \/ CreateTask
    \/ MonitorComments
    \/ NewComment
    \/ MarkCompleted
    \/ AssembleResult
    \/ Summary
    \/ TaskReturn

WfNext ==
    \/ start_research
    \/ get_research_status
    \/ RunnerStep

WfSpec == WfInit /\ [][WfNext]_vars

\* every executor call returns and the code of a started runner runs on
WfLiveSpec == WfSpec /\ WF_vars(RunnerStep)

WfTypeOK ==
    /\ mode \in {"server", "cli"}
    /\ loop \in 0..Len(tasks)
    /\ Len(tasks) <= MaxRequests
    /\ now \in 0..MaxClock
    /\ \A s \in AllSessionIds :
          /\ research_sessions[s].status \in
                {"absent", "initializing", "setting_up", "researching",
                 "creating_prd", "creating_linear_issue", "completed",
                 "failed"}
          /\ research_sessions[s].progress \in {0, 10, 30, 60, 80, 100}
    /\ \A r \in DOMAIN tasks :
          /\ tasks[r].k \in DOMAIN TaskTypes
          /\ tasks[r].last.k \in 0..Len(TaskTypes)
          /\ tasks[r].artifacts \in 0..1

----------------------------------------------------------------------------
(* Helpers of the workflow properties *)

\* the states other than COMPLETE a driver can find
NotComplete == LoopReturns \ {COMPLETE}

\* the runs that have not returned yet
Live == { r \in DOMAIN tasks : tasks[r].pc # "gone" }

Peripheral == (Plans \ {"research"}) \cup TaskPlans

(* C13: a research plan that does not end COMPLETE ends the workflow: the  *)
(* run is over with no other plan submitted and, in server.py, with the    *)
(* session failed; the failure of a PRD, issue, task or comment plan never *)
(* reaches the runner's except, and a run whose analysis is usable ends    *)
(* with the session completed.                                             *)
C13_OnlyResearchFailureAborts ==
    \A r \in Live :
        /\ tasks[r].run["research"] \notin {"none", COMPLETE} =>
              /\ tasks[r].pc = "terminal"
              /\ \A p \in Plans \ {"research"} :
                    tasks[r].run[p] = "none" /\ tasks[r].disp[p] = "none"
              /\ tasks[r].last = NoTask
              /\ mode = "server" =>
                    research_sessions[tasks[r].sid].status = "failed"
        /\ tasks[r].raisedIn \notin Peripheral
        /\ (mode = "server" /\ tasks[r].pc = "terminal"
               /\ tasks[r].analysis = "structured") =>
              research_sessions[tasks[r].sid].status = "completed"

\* the research plan ended FAILED and the background task is over
C13_Witness ==
    \E r \in Live :
        /\ mode = "server"
        /\ tasks[r].run["research"] = FAILED
        /\ tasks[r].pc = "terminal"
        /\ research_sessions[tasks[r].sid].status = "failed"

\* the positions of a runner after the issue step
PastIssue == {"tasks", "comments", "new_comment", "completed", "result",
              "summary", "terminal"}

(* C14: in server.py, when research completed and the PRD plan ended       *)
(* FAILED, the issue plan is submitted all the same, and if it ends        *)
(* COMPLETE the task ends with the session completed and a result whose    *)
(* notion_page_id is null.                                                 *)
C14_NotionFailureStillCompletes ==
    \A r \in Live :
        (mode = "server" /\ tasks[r].run["prd"] = FAILED) =>
            /\ tasks[r].pc \in PastIssue => tasks[r].run["issue"] # "none"
            /\ (tasks[r].pc = "terminal"
                   /\ tasks[r].run["issue"] = COMPLETE) =>
                  /\ research_sessions[tasks[r].sid].status = "completed"
                  /\ research_sessions[tasks[r].sid].result.set
                  /\ research_sessions[tasks[r].sid].result.notion_page_id
                        = "none"

\* a background task is over after a FAILED PRD plan and a COMPLETE issue
\* plan
C14_Witness ==
    \E r \in Live :
        /\ mode = "server"
        /\ tasks[r].run["research"] = COMPLETE
        /\ tasks[r].run["prd"] = FAILED
        /\ tasks[r].run["issue"] = COMPLETE
        /\ tasks[r].pc = "terminal"
        /\ research_sessions[tasks[r].sid].status = "completed"

(* C15: a session is failed only because the research step raised: when a *)
(* background task ends with its session failed, the exception that the   *)
(* runner caught came out of research_feature.                             *)
C15_FailedOnlyFromResearch ==
    \A r \in Live :
        (mode = "server" /\ tasks[r].pc = "terminal"
            /\ research_sessions[tasks[r].sid].status = "failed") =>
           tasks[r].raisedIn = "research"

\* the session ids that have an entry in the map
Entries == { s \in AllSessionIds : research_sessions[s] # Absent }

(* C16: the requests accepted so far have pairwise distinct session ids    *)
(* (one entry per request, none replaced by a later request) and every     *)
(* entry has been written by at most one background task.                  *)
C16_OneWriterPerEntry ==
    mode = "server" =>
       /\ Cardinality(Entries) = Len(tasks)
       /\ \A s \in AllSessionIds : Cardinality(writers[s]) <= 1

\* the positions at which a runner waits for an executor call to return
InExecutor == {"research", "prd", "issue", "tasks"}

(* C17: while a background task waits inside an executor call, the API     *)
(* serves requests and other tasks run: GET /research/{id} can be          *)
(* answered, a further POST /research can be accepted, and a queued task   *)
(* can start.                                                              *)
C17_BlockedTaskLeavesApiFree ==
    (mode = "server" /\ loop # 0 /\ tasks[loop].pc \in InExecutor) =>
        /\ ENABLED get_research_status
        /\ Len(tasks) < MaxRequests => ENABLED start_research
        /\ (\E q \in DOMAIN tasks : tasks[q].pc = "queued") =>
              ENABLED TaskStart

(* C18: every session id handed out by POST /research has an entry from    *)
(* then on, also while its task is still queued, so that no GET for it is  *)
(* answered not-found; and a step of an API handler (one that starts and   *)
(* ends with no runner on the thread) leaves every existing entry as it    *)
(* is.                                                                     *)
C18_EntriesStayAndHandlersKeepThem ==
    [][ /\ \A s \in returned' : research_sessions'[s] # Absent
        /\ \A r \in DOMAIN tasks' :
              tasks'[r].pc = "queued" =>
                 research_sessions'[tasks'[r].sid] # Absent
        /\ (response'.op = "GET" /\ response'.sid \in returned') =>
              response'.code = 200
        /\ (mode = "server" /\ loop = 0 /\ loop' = 0) =>
              \A s \in Entries :
                 research_sessions'[s] = research_sessions[s] ]_vars

(* C19: every session that has an entry eventually has status completed or *)
(* failed, provided every executor call returns and a started or queued    *)
(* runner keeps running.                                                   *)
C19_SessionsReachTerminalStatus ==
    \A s \in AllSessionIds :
        (research_sessions[s] # Absent) ~>
            (research_sessions[s].status \in {"completed", "failed"})

\* a background task has run to the end and left its session completed
C19_Witness ==
    /\ mode = "server"
    /\ loop = 0
    /\ \E r \in DOMAIN tasks : tasks[r].pc = "gone"
    /\ \E s \in Entries :
          /\ research_sessions[s].status = "completed"
          /\ research_sessions[s].result.set
          /\ writers[s] # {}

(* C20: the failure of one sub-step leaves the following sub-steps to be   *)
(* attempted: after the PRD step comes the issue step, after the issue     *)
(* step the runner goes on, after create_linear_tasks come the comments or *)
(* the completion, and after any task creation but the last the next task  *)
(* creation of the same call is attempted, whatever the outcome was.       *)
C20_SubStepFailuresContained ==
    [][ /\ Running("prd") => tasks'[loop].pc = "issue"
        /\ Running("issue") =>
              tasks'[loop].pc \in {"tasks", "completed", "summary"}
        /\ (Running("tasks") /\ Me.k < Len(TaskTypes)) =>
              /\ tasks'[loop].pc = "tasks"
              /\ tasks'[loop].k = Me.k + 1
        /\ (Running("tasks") /\ Me.k = Len(TaskTypes)) =>
              tasks'[loop].pc = AfterTasks
        /\ Running("comments") =>
              tasks'[loop].pc \in {"new_comment", "summary"} ]_vars

(* C21: a research run that ends COMPLETE with a raw string as final value *)
(* does not bring the workflow down: the run ends with no exception        *)
(* caught by the runner and, in server.py, with the session completed.     *)
C21_RawValueDoesNotFailWorkflow ==
    \A r \in Live :
        (tasks[r].analysis = "raw" /\ tasks[r].pc = "terminal") =>
            /\ tasks[r].raisedIn = "none"
            /\ mode = "server" =>
                  research_sessions[tasks[r].sid].status = "completed"

(* C29: within a pass, a clarification of the snapshot is prompted for and *)
(* handed to the executor (resolve_clarification or wait_for_ready) only   *)
(* while the PlanRun is in NEED_CLARIFICATION.                             *)
C29_ResolutionsOnlyWhilePaused ==
    [][ (InLoop /\ (Len(calls') = Len(calls) + 1 \/ lastAnswer' # lastAnswer))
           => plan_run.state = NEED_CLARIFICATION ]_vars

\* the place of a status in the order of the workflow
Rank(st) ==
    CASE st = "initializing" -> 0
      [] st = "setting_up" -> 1
      [] st = "researching" -> 2
      [] st = "creating_prd" -> 3
      [] st = "creating_linear_issue" -> 4
      [] st = "completed" -> 5
      [] OTHER -> 6

\* a status may stay, move to a later step of the order or, before the
\* session is completed, give way to failed
Forward(st, next) ==
    \/ next = st
    \/ /\ st \notin {"completed", "failed"}
       /\ next = "failed" \/ (next # "failed" /\ Rank(next) > Rank(st))

(* C30: every write of a workflow runner moves the status of the entry     *)
(* forward in the order initializing, setting_up, researching,             *)
(* creating_prd, creating_linear_issue, completed, or to failed in place   *)
(* of a later step, and never lowers the progress, which is one of 0, 10,  *)
(* 30, 60, 80, 100.                                                        *)
C30_StatusAndProgressMoveForward ==
    [][ (mode = "server" /\ (loop # 0 \/ loop' # 0)) =>
           \A s \in Entries :
              /\ Forward(research_sessions[s].status,
                         research_sessions'[s].status)
              /\ research_sessions'[s].progress >= research_sessions[s].progress
              /\ research_sessions'[s].progress \in {0, 10, 30, 60, 80, 100}
      ]_vars

----------------------------------------------------------------------------
(* FeatureResearchClarificationHandler: a handler method ends with one of  *)
(* its callbacks, on_resolution(clarification, value) or                   *)
(* on_error(clarification, text)                                           *)

\* variant: the two callbacks the wrong way round
handle_value_confirmation_clarification_Swapped(c, line) ==
    IF Strip(Lower(line)) \in { <<"y">>, <<"y", "e", "s">> }
    THEN [kind |-> "error", id |-> c.id,
          val |-> StrVal(<<"User rejected the value">>)]
    ELSE [kind |-> "resolution", id |-> c.id, val |-> BoolVal(TRUE)]

\* response = input("Is this correct? (y/n): ").lower().strip()
handle_value_confirmation_clarification(c, line) ==
    IF Strip(Lower(line)) \in { <<"y">>, <<"y", "e", "s">> }
    THEN [kind |-> "resolution", id |-> c.id, val |-> BoolVal(TRUE)]
    ELSE [kind |-> "error", id |-> c.id,
          val |-> StrVal(<<"User rejected the value">>)]

\* what a call of handle_clarifications tells the executor, in the terms of
\* the handler's callbacks
Told(call) ==
    [kind |-> IF call.op = "resolve_clarification" THEN "resolution"
              ELSE "wait",
     id |-> call.id, val |-> call.val]

(* C28: for every answer to a ValueConfirmation prompt, the outcome of     *)
(* the handler method (resolution with true, or error) is the outcome that *)
(* handle_clarifications hands to the executor for the same answer.        *)
C28_ConfirmationContractUniform ==
    (InLoop /\ Current.category = "ValueConfirmation") =>
        \A line \in Answers :
            handle_value_confirmation_clarification(Current, line)
               = Told(ConfirmationCall(Current, line))

(* C27: in every workflow variant a run whose research plan ended COMPLETE *)
(* has written the analysis artifact exactly once by the time a PRD or     *)
(* issue plan is submitted or the run is over, no run writes it twice, and *)
(* a run whose research did not complete has written none.                 *)
C27_ArtifactWrittenOncePerRun ==
    \A r \in Live :
        /\ tasks[r].artifacts <= 1
        /\ tasks[r].run["research"] # COMPLETE => tasks[r].artifacts = 0
        /\ ( /\ tasks[r].run["research"] = COMPLETE
             /\ \/ tasks[r].run["prd"] # "none"
                \/ tasks[r].run["issue"] # "none"
                \/ tasks[r].pc = "terminal" )
              => tasks[r].artifacts = 1

----------------------------------------------------------------------------
(* Comments: the values of a list-comments response                        *)

\* a str that is not JSON, spelt s
Word(s) == [t |-> "str", s |-> s, json |-> Invalid]

\* json.dumps(v): the str that json.loads decodes to v
Text(v) == [t |-> "str", s |-> <<>>, json |-> v]

List(xs) == [t |-> "list", items |-> xs]

\* a dict, f maps its keys to their values
Dict(f) == [t |-> "dict", f |-> f]

Number == [t |-> "int"]

\* an instance of LinearCommentsListOutput
Model(content) == [t |-> "model", content |-> content]

\* an object with an attribute text, as printed by the debug lines
Part(text) == [t |-> "part", text |-> text]

\* the comment objects of the tracker; the author is a name or a nested
\* object with a name
Comments ==
    { Dict([body |-> Word(<<"o", "k">>), author |-> Word(<<"B", "o">>)]),
      Dict([body |-> Word(<<"n", "o">>),
            author |-> Dict([name |-> Word(<<"A", "l">>)])]) }

MaxComments == 2

CommentLists == UNION { [1..n -> Comments] : n \in 0..MaxComments }

\* final_output.value of a COMPLETE list-comments run: a raw str, the
\* declared structured object (content: List[dict]), or an object whose
\* content holds objects with an attribute text.
\*   InnerTexts  content[0].text: the encoded array, an encoded object, or
\*               no JSON
\*   Elements    the dicts of a content list: with a text, without one, or
\*               with a text that is no str
\*   Outers      what the outer JSON decodes to
ListingValues ==
    LET TextType == Word(<<"t", "e", "x", "t">>)
        InnerTexts ==
            { Text(List(cs)) : cs \in CommentLists }
               \cup { Text(Dict([message |-> Word(<<"n", "o", "n", "e">>)])),
                      Word(<<"o", "o", "p", "s">>) }
        Elements ==
            { Dict([type |-> TextType, text |-> t]) : t \in InnerTexts }
               \cup { Dict([type |-> TextType]),
                      Dict([type |-> TextType, text |-> Number]) }
        Contents ==
            { List(<<>>) } \cup { List(<<e>>) : e \in Elements }
               \cup { Number }
        Outers ==
            { Dict([content |-> c, isError |-> Number]) : c \in Contents }
               \cup { Dict([isError |-> Number]), List(<<>>) }
    IN  { Text(o) : o \in Outers }
           \cup { Word(<<"o", "o", "p", "s">>) }
           \cup { Model(c) : c \in Contents \cup {None} }
           \cup { Model(List(<<Part(t)>>)) : t \in InnerTexts }

\* how the list-comments run ends for monitor_linear_comments
ListingOutcomes ==
    { [state |-> COMPLETE, value |-> v] : v \in ListingValues }
       \cup { [state |-> st, value |-> None] :
                 st \in (LoopReturns \ {COMPLETE}) \cup {"RAISED"} }

----------------------------------------------------------------------------
(* Comments: parsing, with the exceptions of the Python operations         *)

Ok(v) == [exc |-> "none", val |-> v]

Throw(e) == [exc |-> e, val |-> <<>>]

Handles_ExactOnly(clause, e) == clause = e

\* except <clause>: JSONDecodeError and TypeError are Exceptions
Handles(clause, e) == clause = "Exception" \/ clause = e

\* try: body / except <clauses>: the handlers' value is fallback
Try(body, clauses, fallback) ==
    IF body.exc # "none" /\ \E c \in clauses : Handles(c, body.exc)
    THEN Ok(fallback)
    ELSE body

\* json.loads(v)
json_loads(v) ==
    IF v.t # "str" THEN Throw("TypeError")
    ELSE IF v.json = Invalid THEN Throw("JSONDecodeError")
    ELSE Ok(v.json)

\* raw_comments = json.loads(text); if isinstance(raw_comments, list):
\* comments_data = raw_comments, inside try / except JSONDecodeError /
\* except Exception
InnerComments(text) ==
    Try(LET raw_comments == json_loads(text)
        IN  IF raw_comments.exc # "none" THEN raw_comments
            ELSE IF raw_comments.val.t = "list"
            THEN Ok(raw_comments.val.items)
            ELSE Ok(<<>>),
        {"JSONDecodeError", "Exception"}, <<>>)

\* if isinstance(comments_output, str): ...
\* has is 'text' in content[0], a TypeError when content[0] holds no items
FromString(comments_output) ==
    Try(LET parsed_response == json_loads(comments_output)
        IN  IF parsed_response.exc # "none" THEN parsed_response
            ELSE IF /\ parsed_response.val.t = "dict"
                    /\ "content" \in DOMAIN parsed_response.val.f
            THEN LET content == parsed_response.val.f.content
                 IN  IF content.t = "list" /\ Len(content.items) > 0
                     THEN LET c0 == content.items[1]
                              has == IF c0.t = "dict"
                                     THEN Ok("text" \in DOMAIN c0.f)
                                     ELSE Throw("TypeError")
                          IN  IF has.exc # "none" THEN has
                              ELSE IF has.val
                              THEN InnerComments(content.items[1].f.text)
                              ELSE Ok(<<>>)
                     ELSE Ok(<<>>)
            ELSE Ok(<<>>),
        {"JSONDecodeError", "Exception"}, <<>>)

\* hasattr(v, a): a dict has its keys as items, not as attributes
hasattr(v, a) ==
    \/ v.t = "model" /\ a = "content"
    \/ v.t = "part" /\ a = "text"

\* elif hasattr(comments_output, 'content') and comments_output.content: ...
\* (a content that is None or an empty list is falsy)
\* len() of a content that has no length raises
FromObject(comments_output) ==
    IF /\ hasattr(comments_output, "content")
       /\ comments_output.content.t # "none"
       /\ comments_output.content.t = "list" =>
             comments_output.content.items # <<>>
    THEN LET content == comments_output.content
         IN  IF content.t # "list" THEN Throw("TypeError")
             ELSE IF Len(content.items) > 0 /\ hasattr(content.items[1], "text")
             THEN InnerComments(content.items[1].text)
             ELSE Ok(<<>>)
    ELSE Ok(<<>>)

\* the body of the try of monitor_linear_comments, from the end of the run
\* up to comments_data
Fetched(o) ==
    IF o.state = "RAISED" THEN Throw("RuntimeError")
    ELSE IF o.state = COMPLETE
    THEN IF o.value.t = "str" THEN FromString(o.value)
         ELSE FromObject(o.value)
    ELSE Ok(<<>>)

\* server.py monitor_linear_comments, from the end of the run on: the list
\* it returns (.val) and the exception that leaves it (.exc)
monitor_linear_comments(o) == Try(Fetched(o), {"Exception"}, <<>>)

----------------------------------------------------------------------------
(* Comments: the endpoints of server.py                                    *)

EmptyContent_Never(content) == FALSE

\* if not content:
EmptyContent(content) == content = <<>>

\* server.py create_new_comment: the dict it returns
create_new_comment(content, o) ==
    IF EmptyContent(content)
    THEN [success |-> FALSE, comment_id |-> "none",
          message |-> "Failed to create comment: Comment content cannot be empty"]
    ELSE IF o.state = "RAISED"
    THEN [success |-> FALSE, comment_id |-> "none",
          message |-> "Failed to create comment: error"]
    ELSE IF o.state = COMPLETE
    THEN IF o.value = "raw"
         THEN [success |-> FALSE, comment_id |-> "none",
               message |-> "Failed to create comment: no attribute comment_id"]
         ELSE [success |-> TRUE, comment_id |-> "comment",
               message |-> "Comment created successfully"]
    ELSE [success |-> FALSE, comment_id |-> "none",
          message |-> "Comment creation failed with state: " \o o.state]

\* raise HTTPException(status_code=500, detail=...)
HTTPException(op, detail) ==
    [NoReply EXCEPT !.op = op, !.code = 500, !.setup = FALSE,
                    !.message = detail]

\* CommentResponse(success=..., message=..., data=...)
CommentResponse(r) ==
    [NoReply EXCEPT !.op = "create_comment", !.code = 200,
                    !.success = IF r.success THEN "true" ELSE "false",
                    !.message = r.message,
                    !.data = IF r.success THEN r.comment_id ELSE "none"]

\* POST /comments
create_comment ==
    /\ mode = "api"
    /\ \E setup \in BOOLEAN, content \in { <<>>, <<" ">>, <<"x">> },
          o \in PlanOutcomes :
          reply' = IF ~setup
                   THEN [HTTPException("create_comment",
                                       "Failed to create comment: setup")
                            EXCEPT !.content = content]
                   ELSE [CommentResponse(create_new_comment(content, o))
                            EXCEPT !.content = content,
                                   !.plan = IF EmptyContent(content)
                                            THEN "none" ELSE o.state]
    /\ monitor' = Off
    /\ UNCHANGED <<loopvars, wfvars>>

\* GET /comments/{issue_id}
get_comments ==
    /\ mode = "api"
    /\ \E setup \in BOOLEAN, o \in ListingOutcomes :
          IF ~setup
          THEN /\ reply' = HTTPException("get_comments",
                                         "Failed to get comments: setup")
               /\ monitor' = Off
          ELSE LET comments == monitor_linear_comments(o)
               IN  /\ monitor' = [Off EXCEPT !.pc = "returned",
                                             !.output = o,
                                             !.exc = comments.exc,
                                             !.comments_data = comments.val]
                   /\ reply' =
                         IF comments.exc # "none"
                         THEN HTTPException("get_comments",
                                            "Failed to get comments: error")
                         ELSE [NoReply EXCEPT !.op = "get_comments",
                                              !.code = 200,
                                              !.comments = comments.val,
                                              !.count = Len(comments.val)]
    /\ UNCHANGED <<loopvars, wfvars>>

----------------------------------------------------------------------------
(* Comments: working_backend.py --check-comments                           *)

\* user_input in ['y', 'yes'] after .lower().strip()
Yes(line) == Strip(Lower(line)) \in { <<"y">>, <<"y", "e", "s">> }

\* lines typed at the free-text prompts
FeedbackLines == { <<" ">>, <<"w", "h", "y">> }

At(where) == mode = "check" /\ monitor.pc = where

Quiet == reply' = reply /\ UNCHANGED <<loopvars, wfvars>>

\* check_linear_comments_for_issue: Config and Portia, inside its try
check_linear_comments_for_issue ==
    /\ At("setup")
    /\ \E setup \in BOOLEAN :
          monitor' = [monitor EXCEPT !.pc = IF setup THEN "list" ELSE "done"]
    /\ Quiet

\* monitor_linear_comments up to the first prompt: the run, the parsing and
\* the branch taken on comments_data; an exception ends in the except
ListComments ==
    /\ At("list")
    /\ \E o \in ListingOutcomes :
          LET fetched == Fetched(o)
              n == Len(fetched.val)
          IN  monitor' =
                 IF fetched.exc # "none"
                 THEN [monitor EXCEPT
                          !.pc = "done", !.output = o,
                          !.exc = IF Handles("Exception", fetched.exc)
                                  THEN "none" ELSE fetched.exc]
                 ELSE [monitor EXCEPT
                          !.pc = IF o.state # COMPLETE THEN "ask_create"
                                 ELSE IF n > 0 THEN "ask_process"
                                 ELSE "menu",
                          !.output = o,
                          !.comments_data = fetched.val,
                          !.presented = [j \in 1..n |-> 0],
                          !.followups = [j \in 1..n |-> 0]]
    /\ Quiet

\* "Do you want to process and validate comments for this issue? (y/n)"
AskProcess ==
    /\ At("ask_process")
    /\ \E line \in Answers :
          monitor' = IF Yes(line)
                     THEN [monitor EXCEPT !.pc = "triage", !.k = 1,
                                          !.after = "menu"]
                     ELSE [monitor EXCEPT !.pc = "menu"]
    /\ Quiet

\* comment.get(key, default)
Get(comment, key, default) ==
    IF key \in DOMAIN comment.f THEN comment.f[key] ELSE default

\* refine_issue_from_comment: the plan it submits
refine_issue_from_comment(comment) ==
    << [tool |-> "update_issue",
        text |-> Get(comment, "body", Word(<<"?">>))] >>

\* create_feedback_comment: the plan it submits; .get of an author that is
\* a str raises inside its try before the plan is built
create_feedback_comment(comment, feedback) ==
    IF Get(comment, "author", Dict([none |-> None])).t # "dict" THEN <<>>
    ELSE << [tool |-> "create_comment", text |-> Word(feedback)] >>

\* what one iteration of process_comments_with_user submits
Triaged(comment, line, typed) ==
    IF Yes(line) THEN refine_issue_from_comment(comment)
    ELSE IF Strip(typed) # <<>>
    THEN create_feedback_comment(comment, Strip(typed))
    ELSE <<>>

\* one iteration of for comment in comments_data: in
\* process_comments_with_user
process_comments_with_user ==
    /\ At("triage")
    /\ \E line \in Answers, typed \in FeedbackLines :
          LET k == monitor.k
              plans == Triaged(monitor.comments_data[k], line, typed)
              more == k < Len(monitor.comments_data)
          IN  monitor' =
                 [monitor EXCEPT
                     !.pc = IF more THEN "triage" ELSE monitor.after,
                     !.k = IF more THEN k + 1 ELSE 0,
                     !.presented[k] = @ + 1,
                     !.followups[k] = @ + Len(plans),
                     !.last = [k |-> k,
                               verdict |-> IF Yes(line) THEN "valid"
                                           ELSE "invalid",
                               feedback |-> IF Yes(line) THEN <<>>
                                            ELSE Strip(typed),
                               plans |-> plans]]
    /\ Quiet

\* "What would you like to do? (1/2/3)"
Menu ==
    /\ At("menu")
    /\ \E line \in { <<"1">>, <<" ", "2">>, <<"3">>, <<"x">> } :
          LET choice == Strip(line)
          IN  monitor' =
                 IF choice = <<"1">> /\ monitor.comments_data # <<>>
                 THEN [monitor EXCEPT !.pc = "triage", !.k = 1,
                                      !.after = "done"]
                 ELSE IF choice = <<"2">> \/ choice = <<"1">>
                 THEN [monitor EXCEPT !.pc = "new_comment"]
                 ELSE [monitor EXCEPT !.pc = "done"]
    /\ Quiet

\* "Create a new comment? (y/n)" after a run that did not complete
AskCreate ==
    /\ At("ask_create")
    /\ \E line \in Answers :
          monitor' = [monitor EXCEPT !.pc = IF Yes(line) THEN "new_comment"
                                            ELSE "done"]
    /\ Quiet

\* working_backend.py create_new_comment: title, body and, for a body that
\* is not empty, the plan
NewCommentTyped ==
    /\ At("new_comment")
    /\ \E typed \in FeedbackLines :
          monitor' =
             [monitor EXCEPT
                 !.pc = "done",
                 !.last = [NoTriage EXCEPT
                              !.verdict = "new",
                              !.feedback = Strip(typed),
                              !.plans =
                                 IF EmptyContent(Strip(typed)) THEN <<>>
                                 ELSE << [tool |-> "create_comment",
                                          text |-> Word(Strip(typed))] >>]]
    /\ Quiet

CmInit ==
    /\ LoopInit
    /\ mode \in {"api", "check"}
    /\ research_sessions = [s \in AllSessionIds |-> Absent]
    /\ now = 0
    /\ tasks = <<>>
    /\ loop = 0
    /\ response = NoResponse
    /\ returned = {}
    /\ writers = [s \in AllSessionIds |-> {}]
    /\ owner = [s \in AllSessionIds |-> 0]
    /\ monitor = IF mode = "check" THEN [Off EXCEPT !.pc = "setup"] ELSE Off
    /\ reply = NoReply

CmNext ==
    \/ create_comment
    \/ get_comments
    \/ check_linear_comments_for_issue
    \/ ListComments
    \/ AskProcess
    \/ process_comments_with_user
    \/ Menu
    \/ AskCreate
    \/ NewCommentTyped

CmSpec == CmInit /\ [][CmNext]_vars

----------------------------------------------------------------------------
(* Helpers of the comment properties *)

\* the element of a content list whose text is the encoded array cs
Encoded(cs) ==
    Dict([type |-> Word(<<"t", "e", "x", "t">>), text |-> Text(List(cs))])

\* the response that carries cs as a raw JSON string
AsString(cs) ==
    Text(Dict([content |-> List(<<Encoded(cs)>>), isError |-> Number]))

\* the response that carries cs as the declared structured object
AsDeclared(cs) == Model(List(<<Encoded(cs)>>))

\* the listing has been parsed
Listed == monitor.output.state = COMPLETE /\ monitor.pc # "list"

(* C22: a COMPLETE list-comments response whose content[0].text is the     *)
(* JSON encoding of an array of comments yields exactly those comments,    *)
(* whether it arrives as a raw JSON string or as the declared structured   *)
(* object whose content is a list of dicts.                                *)
C22_DoubleEncodingUnwrapped ==
    \A cs \in CommentLists :
        (Listed /\ monitor.output.value \in {AsString(cs), AsDeclared(cs)})
            => /\ monitor.comments_data = cs
               /\ mode = "api" => reply.comments = cs /\ reply.count = Len(cs)

\* the response that carries cs in objects with an attribute text
AsParts(cs) == Model(List(<<Part(Text(List(cs)))>>))

\* a response that carries no encoded array of comments in content[0].text
Malformed(v) ==
    \A cs \in CommentLists : v \notin {AsString(cs), AsDeclared(cs), AsParts(cs)}

(* C23: a malformed list-comments response (outer text not JSON, no        *)
(* content field, empty content, no text field, inner text not JSON or not *)
(* an array) never raises out of monitor_linear_comments: the comment list *)
(* is empty and the caller goes on, GET /comments answering 200 with an    *)
(* empty list and --check-comments going on to its prompts or its end.     *)
C23_MalformedListingDegrades ==
    (monitor.output.state # "none" /\ monitor.pc # "list") =>
        /\ monitor.exc = "none"
        /\ mode = "api" => reply.op = "get_comments" /\ reply.code = 200
        /\ (monitor.output.state = COMPLETE /\ Malformed(monitor.output.value))
              => /\ monitor.comments_data = <<>>
                 /\ mode = "api" => reply.comments = <<>> /\ reply.count = 0
                 /\ mode = "check" =>
                       monitor.pc \in {"menu", "new_comment", "done"}

C23_Witness ==
    /\ mode = "api"
    /\ monitor.output.state = COMPLETE
    /\ monitor.output.value.t = "str"
    /\ monitor.output.value.json.t = "dict"
    /\ "content" \in DOMAIN monitor.output.value.json.f
    /\ Malformed(monitor.output.value)
    /\ reply.code = 200
    /\ reply.count = 0

\* the comment presented last
Presented == monitor.comments_data[monitor.last.k]

(* C24: each presented comment takes exactly one of two branches: judged   *)
(* valid, it drives exactly one update-issue plan carrying the comment     *)
(* body and no create-comment plan; judged invalid, a justification is     *)
(* collected and exactly one create-comment plan posts it, with no         *)
(* update-issue plan.                                                      *)
C24_TriageTakesOneOfTwoBranches ==
    /\ monitor.last.verdict = "valid" =>
          monitor.last.plans =
             << [tool |-> "update_issue", text |-> Presented.f.body] >>
    /\ monitor.last.verdict = "invalid" =>
          monitor.last.plans =
             << [tool |-> "create_comment",
                 text |-> Word(monitor.last.feedback)] >>

(* C25: within one call of monitor_linear_comments every fetched comment   *)
(* is presented for a validity judgment at most once and drives at most    *)
(* one follow-up plan, whatever is answered at the comment prompts.        *)
C25_TriageIsOnePass ==
    mode = "check" =>
        \A j \in 1..Len(monitor.comments_data) :
            /\ monitor.presented[j] <= 1
            /\ monitor.followups[j] <= 1

\* a failure envelope with an explanatory message: the 500 of a handler's
\* except with its detail, or a CommentResponse with success false, a
\* message and no data
Failure(r) ==
    \/ r.code = 500 /\ r.message # ""
    \/ r.code = 200 /\ r.success = "false" /\ r.message # "" /\ r.data = "none"

C31_TerminalStatusAbsorbing ==
    [][ ( /\ response.op = "GET"
          /\ response.code = 200
          /\ response.session.status \in {"completed", "failed"}
          /\ loop' = 0 )
           => research_sessions'[response.sid] = response.session ]_vars

(* C32: in every state a GET /research/{id} can observe (no runner on the  *)
(* thread) every session record is consistent: the result is set if and    *)
(* only if the status is completed, the error is set if and only if the    *)
(* status is failed, and a completed session has progress 100.             *)
C32_SessionRecordConsistent ==
    (mode = "server" /\ loop = 0) =>
        \A s \in Entries :
            LET session == research_sessions[s]
            IN  /\ session.result.set <=> session.status = "completed"
                /\ session.error # "none" <=> session.status = "failed"
                /\ session.status = "completed" => session.progress = 100

\* the issue step of run r is over without an issue id
IssueFailed(r) ==
    /\ r \in Live
    /\ tasks[r].disp["issue"] # "none"
    /\ tasks[r].linear_issue_id = "none"
    /\ tasks[r].pc # "issue"

\* a task-creation or comment plan of run r has been submitted, or is about
\* to be
PastIssueGate(r) ==
    \/ tasks[r].pc \in {"tasks", "comments", "new_comment"}
    \/ tasks[r].last # NoTask
    \/ tasks[r].run["comments"] # "none"
    \/ tasks[r].run["new_comment"] # "none"

(* C33: task-creation plans (and, in main(), the comment plans) are         *)
(* submitted only after the issue plan of the same run ended COMPLETE and   *)
(* returned an issue id; when the issue step fails none of them is          *)
(* submitted, the failure does not reach the runner's except, and the run   *)
(* goes on to its end.                                                      *)
C33_TasksOnlyAfterIssue ==
    /\ [](\A r \in Live :
             /\ PastIssueGate(r) =>
                   /\ tasks[r].run["issue"] = COMPLETE
                   /\ tasks[r].linear_issue_id # "none"
             /\ IssueFailed(r) =>
                   /\ ~PastIssueGate(r)
                   /\ tasks[r].raisedIn # "issue"
                   /\ tasks[r].pc \in {"completed", "result", "summary",
                                       "terminal"})
    /\ (\E r \in Live : IssueFailed(r) /\ tasks[r].pc # "terminal")
          ~> (\A r \in Live : IssueFailed(r) => tasks[r].pc = "terminal")

\* a run whose issue plan ended FAILED has reached its end with no task or
\* comment plan submitted
C33_Witness ==
    \E r \in Live :
        /\ tasks[r].run["issue"] = FAILED
        /\ tasks[r].pc = "terminal"
        /\ tasks[r].raisedIn = "none"
        /\ tasks[r].last = NoTask
        /\ tasks[r].run["comments"] = "none"

----------------------------------------------------------------------------
(* FeatureResearchClarificationHandler, called by the executor with one    *)
(* clarification                                                           *)

\* the method prompts again after `line`: a multiple choice with options
\* for which int(input(...)) raises ValueError or is out of range
AsksAgain(c, line) ==
    /\ c.category = "MultipleChoice"
    /\ c.options # <<>>
    /\ ~ ( /\ ParseInt(line).ok
           /\ ChoiceInRange(ParseInt(line).n, Len(c.options)) )

\* the methods of the class, by the category of c; lines are the lines
\* typed at the prompts of the call, the latest last; the callbacks made
\*   handle_action_clarification           on_resolution(c, "completed")
\*   handle_input_clarification            on_resolution(c, user_input)
\*   handle_multiple_choice_clarification  on_resolution(c, options[choice-1])
\*                                         once the choice is valid, or
\*                                         on_resolution(c, user_input)
\*   handle_value_confirmation_clarification
\*   handle_custom_clarification           on_resolution(c, user_input)
FeatureResearchClarificationHandler(c, lines) ==
    LET line == lines[Len(lines)]
        on_resolution(v) == << [kind |-> "resolution", id |-> c.id, val |-> v] >>
    IN  CASE c.category = "Action" ->
                on_resolution(StrVal(<<"c", "o", "m", "p", "l", "e", "t", "e", "d">>))
          [] c.category \in {"Input", "Custom"} ->
                on_resolution(StrVal(line))
          [] c.category = "MultipleChoice" ->
                IF c.options = <<>> THEN on_resolution(StrVal(line))
                ELSE IF AsksAgain(c, line) THEN <<>>
                ELSE on_resolution(
                        StrVal(SelectedOption(c.options, ParseInt(line).n)))
          [] c.category = "ValueConfirmation" ->
                << handle_value_confirmation_clarification(c, line) >>

\* the executor hands a clarification it raised to the handler; every line
\* typed before the last was answered by a new prompt. The class keeps no
\* field, so a behaviour is one call on a fresh instance
handle ==
    /\ mode = "handler"
    /\ clarifications = <<>>
    /\ \E k \in DOMAIN Kinds, id \in 1..MaxIds, n \in 1..(MaxRejected + 1) :
          LET c == [id |-> id, category |-> Kinds[k].category,
                    options |-> Kinds[k].options]
              again == { a \in Answers : AsksAgain(c, a) }
          IN  \E before \in [1..(n - 1) -> again], line \in Answers :
                 LET lines == [j \in 1..n |-> IF j < n THEN before[j]
                                                       ELSE line]
                 IN
                 /\ c.category # "Unknown"
                 /\ clarifications' = <<c>>
                 /\ calls' = FeatureResearchClarificationHandler(c, lines)
                 /\ lastAnswer' = lines[n]
                 /\ rejected' = [id |-> id, n |-> n - 1]
    /\ UNCHANGED <<pc, plan_run, i, passResumes, applied, pass, resumes,
                   raised, result>>
    /\ UNCHANGED <<wfvars, cmvars>>

HdInit == LoopInit /\ mode = "handler" /\ NoWorkflow

HdSpec == HdInit /\ [][handle]_vars

(* C34: every method of FeatureResearchClarificationHandler, once its      *)
(* prompt is answered validly, has invoked exactly one callback, once, for *)
(* the clarification it was given; the callback is on_error only for a     *)
(* ValueConfirmation that was rejected; a line the method does not accept  *)
(* invokes none.                                                           *)
C34_HandlerCallsOneCallbackOnce ==
    clarifications # <<>> =>
        LET c == clarifications[1]
        IN  IF AsksAgain(c, lastAnswer) THEN calls = <<>>
            ELSE /\ Len(calls) = 1
                 /\ calls[1].id = c.id
                 /\ calls[1].kind \in {"resolution", "error"}
                 /\ calls[1].kind = "error" <=>
                       /\ c.category = "ValueConfirmation"
                       /\ ~Confirmed(lastAnswer)

\* a multiple-choice prompt answered validly at the second attempt
C34_Witness ==
    /\ mode = "handler"
    /\ clarifications # <<>>
    /\ clarifications[1].category = "MultipleChoice"
    /\ rejected.n = 1
    /\ Len(calls) = 1
    /\ calls[1].kind = "resolution"

(* C35: a driver invokes the resolution loop only when run_plan returned   *)
(* the PlanRun in NEED_CLARIFICATION: when run_plan returned COMPLETE or   *)
(* FAILED the driver goes straight to its final test, and up to the end of *)
(* the driver no get_outstanding_clarifications, resolve_clarification,    *)
(* wait_for_ready or resume has been issued and the PlanRun is the one     *)
(* run_plan returned.                                                      *)
C35_LoopOnlyOnNeedClarification ==
    /\ [][ (pc = "driver_if" /\ plan_run.state \in {COMPLETE, FAILED}) =>
              pc' = "final" /\ plan_run' = plan_run ]_vars
    /\ [][ (pc \in {"final", "done"} /\ pass = 0) => plan_run' = plan_run ]_vars
    /\ []( (pc \in {"final", "done"} /\ pass = 0) =>
              /\ plan_run.state \in {COMPLETE, FAILED}
              /\ clarifications = <<>>
              /\ calls = <<>>
              /\ resumes = 0
              /\ \A k \in 1..MaxIds : applied[k] = 0 )
    /\ []( pass > 0 => raised > 0 )

\* the driver has ended on a run that run_plan returned FAILED
C35_Witness ==
    /\ mode = "driver"
    /\ pc = "done"
    /\ pass = 0
    /\ plan_run.state = FAILED
    /\ result = "raise"

(* C36: create_new_comment with an empty comment content submits no plan   *)
(* to the Executor and reports failure; with a content that is not empty   *)
(* it submits exactly one create-comment plan. The content of POST         *)
(* /comments is the request's content as sent; the content of the command  *)
(* line is the typed line after strip.                                     *)
C36_EmptyCommentSubmitsNoPlan ==
    /\ (reply.op = "create_comment" /\ reply.setup) =>
          /\ reply.content = <<>> =>
                /\ reply.plan = "none"
                /\ reply.code = 200
                /\ reply.success = "false"
                /\ reply.data = "none"
                /\ reply.message =
                      "Failed to create comment: Comment content cannot be empty"
          /\ reply.content # <<>> => reply.plan # "none"
    /\ (mode = "check" /\ monitor.last.verdict = "new") =>
          LET typed == monitor.last
          IN  /\ typed.feedback = <<>> => typed.plans = <<>>
              /\ typed.feedback # <<>> =>
                    /\ Len(typed.plans) = 1
                    /\ typed.plans[1].tool = "create_comment"
                    /\ typed.plans[1].text = Word(typed.feedback)

\* the command line was given a blank content and submitted nothing
C36_Witness ==
    /\ mode = "check"
    /\ monitor.pc = "done"
    /\ monitor.last.verdict = "new"
    /\ monitor.last.feedback = <<>>
    /\ monitor.last.plans = <<>>

====
